---- MODULE Spec2Model ----
(***************************************************************************)
(* Verification model of the kaggle-5-day-agents repository.               *)
(*                                                                         *)
(* Independent parts of the repository are modelled, each with its own     *)
(* specification over the shared variable list:                            *)
(*   SpecSession  Day3a/agents/session_agent.py   (session state tools)    *)
(*   SpecShip     Day2b shipping workflow         (long-running approval)  *)
(*   SpecLog      utility/logging_config.py       (handlers and modes)     *)
(*   SpecLevel    utility/logging_config.py       (log level resolution)   *)
(*   SpecApi      agents-api-server.py and                                 *)
(*                vertex-ai-agent-bridge-api.py   (the two HTTP servers)   *)
(***************************************************************************)
EXTENDS Integers, Sequences, FiniteSets, TLC

VARIABLES
    \* ---- Day3a/agents/session_agent.py
    state,          \* tool_context.state of the session: a dict
    tool_result,    \* the dict returned by the most recent tool call
    calls,          \* history: the tool calls made in the session, in order
    \* ---- Day2b shipping workflow
    workflow,       \* the run_shipping_workflow call in progress
    runs,           \* number of workflows started by the driver
    \* ---- utility/logging_config.py
    environ,        \* os.environ: a dict from variable names to strings
    root_level,     \* logging.getLogger().level
    root_handlers,  \* logging.getLogger().handlers: a list of handlers
    child_level,    \* level of each logger of loggers_to_debug
    child_handlers, \* handlers of a logger of loggers_to_debug
    child_propagate,\* propagate flag of each logger of loggers_to_debug
    last_call,      \* history: the most recent operation on the logging state
    \* ---- agents-api-server.py and vertex-ai-agent-bridge-api.py
    server,         \* which of the two server programs is the one running
    agents_cache,   \* agents_cache of the running program: name -> agent
    runners_cache,  \* runners_cache: agent name -> InMemoryRunner
    loadable,       \* environment: the names whose agent.py loads a root_agent
    run_ok,         \* environment: whether runner.run answers or raises
    load_calls,     \* history: number of load_agent calls per agent name
    runners_made,   \* history: number of InMemoryRunner objects made per name
    returned,       \* history: the objects get_agent has returned per name
    request,        \* the HTTP request being served
    response,       \* the HTTP response to it
    vertex_ai_initialized, \* bridge: the module flag of init_vertex_ai
    deployed,       \* bridge, environment: what agent_engines.list() yields
    list_calls,     \* bridge, history: agent_engines.list() calls made by
                    \* get_deployed_agent
    served          \* bridge, history: the agents get_deployed_agent has
                    \* returned per requested name

sessionVars == <<state, tool_result, calls>>
shipVars == <<workflow, runs>>
logVars == <<environ, root_level, root_handlers, child_level, child_handlers,
             child_propagate, last_call>>
bridgeVars == <<vertex_ai_initialized, deployed, list_calls, served>>
apiVars == <<server, agents_cache, runners_cache, loadable, run_ok, load_calls,
             runners_made, returned, request, response, bridgeVars>>
vars == <<state, tool_result, calls, workflow, runs, environ, root_level,
          root_handlers, child_level, child_handlers, child_propagate, last_call,
          server, agents_cache, runners_cache, loadable, run_ok, load_calls,
          runners_made, returned, request, response, vertex_ai_initialized,
          deployed, list_calls, served>>

\* Python's None, True and False where a value may be any of the three.
None == "None"

(***************************************************************************)
(* Python dict helpers: a dict is a function whose DOMAIN is its key set.  *)
(***************************************************************************)
EmptyDict == [k \in {} |-> None]

DictSet(d, k, v) == [x \in (DOMAIN d) \cup {k} |-> IF x = k THEN v ELSE d[x]]

DictGet(d, k, default) == IF k \in DOMAIN d THEN d[k] ELSE default

(***************************************************************************)
(* Day3a/agents/session_agent.py                                           *)
(***************************************************************************)
MaxCalls == 3

UserNames == {"Sam", "Ana", "Li"}
Countries == {"Spain", "India", "Peru"}

\* Mutation: the country is written under the name key as well.
save_userinfo_state_swapped(st, user_name, country) ==
    DictSet(DictSet(st, "user:name", country), "user:country", country)

\* save_userinfo, lines 57-58: the two assignments to tool_context.state.
save_userinfo_state(st, user_name, country) ==
    DictSet(DictSet(st, "user:name", user_name), "user:country", country)

\* save_userinfo, line 59: the returned dict.
save_userinfo_result(user_name, country) ==
    [tool |-> "save_userinfo", status |-> "success",
     message |-> <<"Saved user info: ", user_name, " from ", country>>]

\* retrieve_userinfo, lines 66-68.
retrieve_userinfo_result(st) ==
    [tool |-> "retrieve_userinfo", status |-> "success",
     user_name |-> DictGet(st, "user:name", "Username not found"),
     country |-> DictGet(st, "user:country", "Country not found")]

SessionInit ==
    /\ state = EmptyDict
    /\ tool_result = [tool |-> None]
    /\ calls = <<>>

save_userinfo(user_name, country) ==
    /\ Len(calls) < MaxCalls
    /\ state' = save_userinfo_state(state, user_name, country)
    /\ tool_result' = save_userinfo_result(user_name, country)
    /\ calls' = Append(calls, [tool |-> "save_userinfo",
                               user_name |-> user_name, country |-> country])

retrieve_userinfo ==
    /\ Len(calls) < MaxCalls
    /\ tool_result' = retrieve_userinfo_result(state)
    /\ calls' = Append(calls, [tool |-> "retrieve_userinfo"])
    /\ UNCHANGED state

SaveCall ==
    /\ \E n \in UserNames, c \in Countries : save_userinfo(n, c)
    /\ UNCHANGED <<shipVars, logVars, apiVars>>

RetrieveCall ==
    /\ retrieve_userinfo
    /\ UNCHANGED <<shipVars, logVars, apiVars>>

SessionNext == SaveCall \/ RetrieveCall

(***************************************************************************)
(* Day2b shipping workflow.  Day2b/shipping_agent/agent.py is not part of  *)
(* the sources at hand; the tool and the workflow are modelled from the    *)
(* module docstring of Day2b/run_shipping_workflow.py and the glossary     *)
(* entry "Long-running operation".                                         *)
(***************************************************************************)
MaxContainers == 10
MaxRuns == 3

\* Mutation: the threshold is off by one.
LARGE_ORDER_THRESHOLD_off_by_one == 5 + 1

\* run_shipping_workflow.py, lines 5-6: "<=5 containers" / ">5 containers".
LARGE_ORDER_THRESHOLD == 5

\* The tool: small orders are approved at once; a large order asks for a
\* confirmation when none is attached to the call, and follows it otherwise.
place_shipping_order(num_containers, tool_confirmation) ==
    IF num_containers <= LARGE_ORDER_THRESHOLD THEN "approved"
    ELSE IF tool_confirmation = None THEN "pending"
    ELSE IF tool_confirmation = "True" THEN "approved"
    ELSE "rejected"

\* An approval request is among the events exactly when the tool paused.
check_for_approval(status) == status = "pending"

IdleWorkflow ==
    [pc |-> "idle", num_containers |-> 0, auto_approve |-> None,
     tool_confirmation |-> None, status |-> None, paused |-> FALSE]

ShipInit ==
    /\ workflow = IdleWorkflow
    /\ runs = 0

\* run_shipping_workflow(query, auto_approve): the first agent turn.
StartWorkflow(n, auto_approve) ==
    /\ workflow.pc \in {"idle", "done"}
    /\ runs < MaxRuns
    /\ runs' = runs + 1
    /\ LET st == place_shipping_order(n, None) IN
       workflow' = [pc |-> IF check_for_approval(st) THEN "paused" ELSE "done",
                    num_containers |-> n, auto_approve |-> auto_approve,
                    tool_confirmation |-> None, status |-> st,
                    paused |-> check_for_approval(st)]

\* create_approval_response(approval_info, auto_approve): the decision.
GiveDecision ==
    /\ workflow.pc = "paused"
    /\ workflow' = [workflow EXCEPT !.pc = "decided",
                                    !.tool_confirmation = workflow.auto_approve]
    /\ UNCHANGED runs

\* The resumed turn: the tool is called again with the confirmation.
ResumeWorkflow ==
    /\ workflow.pc = "decided"
    /\ workflow' = [workflow EXCEPT
                      !.pc = "done",
                      !.status = place_shipping_order(workflow.num_containers,
                                                      workflow.tool_confirmation)]
    /\ UNCHANGED runs

SubmitOrder ==
    /\ \E n \in 1..MaxContainers, a \in {"True", "False"} : StartWorkflow(n, a)
    /\ UNCHANGED <<sessionVars, logVars, apiVars>>

Decide ==
    /\ GiveDecision
    /\ UNCHANGED <<sessionVars, logVars, apiVars>>

Resume ==
    /\ ResumeWorkflow
    /\ UNCHANGED <<sessionVars, logVars, apiVars>>

ShipNext == SubmitOrder \/ Decide \/ Resume

(***************************************************************************)
(* utility/logging_config.py                                               *)
(*                                                                         *)
(* Strings whose case matters are sequences of one-character strings, so   *)
(* that str.upper() is computed and not assumed.  Optional booleans are    *)
(* "None", "True" or "False".  A log_level argument is None, a str or an   *)
(* int, tagged by its type.                                                *)
(***************************************************************************)
MaxHandlers == 3
MaxChildHandlers == 1

LowerCase == <<"a", "b", "c", "d", "e", "f", "g", "h", "i", "j", "k", "l", "m",
               "n", "o", "p", "q", "r", "s", "t", "u", "v", "w", "x", "y", "z">>
UpperCase == <<"A", "B", "C", "D", "E", "F", "G", "H", "I", "J", "K", "L", "M",
               "N", "O", "P", "Q", "R", "S", "T", "U", "V", "W", "X", "Y", "Z">>

\* str.upper()
str_upper(s) ==
    [i \in 1..Len(s) |->
        IF \E j \in 1..Len(LowerCase) : LowerCase[j] = s[i]
        THEN UpperCase[CHOOSE j \in 1..Len(LowerCase) : LowerCase[j] = s[i]]
        ELSE s[i]]

PyNone == [t |-> "None"]
PyStr(s) == [t |-> "str", v |-> s]
PyInt(n) == [t |-> "int", n |-> n]

\* bool(x) of an Optional[bool]
Truthy(b) == b = "True"

\* The logging module's level constants named by level_map; NOTSET, the level
\* of a handler nobody has set a level on, is 0.
DEBUG == 10
INFO == 20
WARNING == 30
ERROR == 40
CRITICAL == 50

\* __get_log_level, lines 61-67
level_map ==
    (<<"D", "E", "B", "U", "G">> :> DEBUG) @@
    (<<"I", "N", "F", "O">> :> INFO) @@
    (<<"W", "A", "R", "N", "I", "N", "G">> :> WARNING) @@
    (<<"E", "R", "R", "O", "R">> :> ERROR) @@
    (<<"C", "R", "I", "T", "I", "C", "A", "L">> :> CRITICAL)

\* Mutation: the level name is looked up as given, without .upper().
get_log_level_case_sensitive(level, env) ==
    LET lv == IF level.t = "None"
              THEN PyStr(DictGet(env, "ADK_LOG_LEVEL", <<"D", "E", "B", "U", "G">>))
              ELSE level
    IN IF lv.t = "str" THEN DictGet(level_map, lv.v, DEBUG)
       ELSE IF lv.t = "int" THEN lv.n ELSE DEBUG

\* __get_log_level, lines 45-70
_get_log_level(level, env) ==
    LET lv == IF level.t = "None"
              THEN PyStr(str_upper(DictGet(env, "ADK_LOG_LEVEL",
                                           <<"D", "E", "B", "U", "G">>)))
              ELSE level
    IN IF lv.t = "str" THEN DictGet(level_map, str_upper(lv.v), DEBUG)
       ELSE IF lv.t = "int" THEN lv.n ELSE DEBUG

\* __is_cloud_environment, lines 24-31
cloud_indicators ==
    <<"GOOGLE_CLOUD_PROJECT", "GCP_PROJECT", "CLOUD_RUN_SERVICE", "K_SERVICE",
      "VERTEX_AI_ENDPOINT", "GOOGLE_APPLICATION_CREDENTIALS">>

\* __is_cloud_environment, lines 16-42
_is_cloud_environment(env) ==
    LET explicit_cloud == str_upper(DictGet(env, "ADK_CLOUD_MODE", <<>>)) IN
    IF explicit_cloud \in {<<"T", "R", "U", "E">>, <<"1">>, <<"Y", "E", "S">>}
    THEN TRUE
    ELSE IF explicit_cloud \in {<<"F", "A", "L", "S", "E">>, <<"0">>, <<"N", "O">>}
    THEN FALSE
    ELSE \E i \in 1..Len(cloud_indicators) :
            DictGet(env, cloud_indicators[i], <<>>) # <<>>

(***************************************************************************)
(* Handlers.  logging.FileHandler is a subclass of logging.StreamHandler;  *)
(* "Handler" stands for any handler class that is neither (NullHandler,    *)
(* the handlers of logging.handlers that do not derive from them).         *)
(***************************************************************************)
Handler(kind, path, level) == [kind |-> kind, path |-> path, level |-> level]

\* isinstance(handler, logging.StreamHandler)
IsStreamHandler(h) == h.kind \in {"StreamHandler", "FileHandler"}

\* isinstance(handler, logging.FileHandler)
IsFileHandler(h) == h.kind = "FileHandler"

\* os.path.join(TEMP or ~, 'agents_log', 'agent.latest.log'), lines 134-136
DefaultLogFile == "~/agents_log/agent.latest.log"

\* log_file in str(handler_path), line 157: none of the modelled paths is a
\* substring of another one.
PathContains(handler_path, log_file) == handler_path = log_file

\* bool(log_file) of an Optional[str]
HasLogFile(log_file) == log_file \notin {None, ""}

\* setup_adk_logging, lines 132-139
resolve_log_file(file_only, log_file) ==
    IF Truthy(file_only) /\ log_file = None THEN DefaultLogFile
    ELSE IF ~Truthy(file_only) THEN None
    ELSE log_file

\* handler.setLevel(lvl) on every StreamHandler of hs
SetStreamLevels(hs, lvl) ==
    [i \in 1..Len(hs) |->
        IF IsStreamHandler(hs[i]) THEN [hs[i] EXCEPT !.level = lvl] ELSE hs[i]]

\* handler.setLevel(lvl) on every FileHandler of hs
SetFileLevels(hs, lvl) ==
    [i \in 1..Len(hs) |->
        IF IsFileHandler(hs[i]) THEN [hs[i] EXCEPT !.level = lvl] ELSE hs[i]]

\* setup_adk_logging, lines 149-158: the loop over a copy of the handlers
local_mode_removes(h, log_file) ==
    IF IsStreamHandler(h) THEN TRUE
    ELSE IF IsFileHandler(h)
         THEN h.path # "" /\ HasLogFile(log_file) /\ PathContains(h.path, log_file)
         ELSE FALSE

\* setup_adk_logging, lines 147-166
local_mode_handlers(hs, log_file, lvl) ==
    LET kept == SelectSeq(hs, LAMBDA h : ~local_mode_removes(h, log_file)) IN
    IF HasLogFile(log_file)
    THEN Append(kept, Handler("FileHandler", log_file, lvl))
    ELSE kept

\* setup_adk_logging, lines 167-188
cloud_mode_handlers(hs, lvl) ==
    LET kept == SelectSeq(hs, LAMBDA h : ~IsFileHandler(h))
        has_stream_handler == \E i \in 1..Len(kept) : IsStreamHandler(kept[i])
    IN IF ~has_stream_handler
       THEN Append(kept, Handler("StreamHandler", "", lvl))
       ELSE SetStreamLevels(kept, lvl)

\* setup_adk_logging, lines 202-208: the handlers of a logger of loggers_to_debug
child_logger_handlers(hs, file_only, lvl) ==
    IF Truthy(file_only)
    THEN SetFileLevels(SelectSeq(hs, LAMBDA h : ~IsStreamHandler(h)), lvl)
    ELSE hs

RemoveAt(hs, i) == SubSeq(hs, 1, i - 1) \o SubSeq(hs, i + 1, Len(hs))

RECURSIVE ensure_root_handlers(_, _, _, _)
\* setup_adk_logging, lines 214-219: the for loop runs over the list itself, so
\* the handler that follows a removed one moves into its place and is skipped.
ensure_root_handlers(hs, i, file_only, lvl) ==
    IF i > Len(hs) THEN hs
    ELSE IF IsFileHandler(hs[i])
         THEN ensure_root_handlers([hs EXCEPT ![i].level = lvl], i + 1, file_only, lvl)
    ELSE IF Truthy(file_only) /\ ~IsFileHandler(hs[i])
         THEN ensure_root_handlers(RemoveAt(hs, i), i + 1, file_only, lvl)
    ELSE ensure_root_handlers(hs, i + 1, file_only, lvl)

\* logging.log, lines 225, 227 and 256: the module-level function calls
\* basicConfig() first when the root logger has no handler at all.
logging_log(hs) ==
    IF Len(hs) = 0 THEN <<Handler("StreamHandler", "", 0)>> ELSE hs

\* setup_adk_logging, lines 141-227: the root logger's handlers on return.
\* cloud_mode is a parameter the body never reads.
setup_root_handlers(hs, file_only, cloud_mode, log_file, lvl) ==
    LET file == resolve_log_file(file_only, log_file)
        configured == IF Truthy(file_only)
                      THEN local_mode_handlers(hs, file, lvl)
                      ELSE cloud_mode_handlers(hs, lvl)
    IN logging_log(ensure_root_handlers(configured, 1, file_only, lvl))

\* setup_adk_logging(agent_name=..., file_only=True), the call every agent
\* module makes on import (agents/sample-agent/agent.py, line 18).
IsModuleSetup(c) ==
    /\ c.fn = "setup_adk_logging"
    /\ c.file_only = "True"
    /\ c.cloud_mode = None
    /\ c.log_level = PyNone
    /\ c.log_file = None

\* The operation just performed, for the properties to refer to, and whether
\* the operation before it was the agent modules' setup call.
Call(fn, file_only, cloud_mode, log_level, log_file) ==
    [fn |-> fn, file_only |-> file_only, cloud_mode |-> cloud_mode,
     log_level |-> log_level, log_file |-> log_file,
     after_module_setup |-> IsModuleSetup(last_call)]

LogInit ==
    /\ environ = EmptyDict
    /\ root_level = WARNING
    /\ root_handlers = <<>>
    /\ child_level = 0
    /\ child_handlers = <<>>
    /\ child_propagate = TRUE
    /\ last_call = [fn |-> None, file_only |-> None, cloud_mode |-> None,
                    log_level |-> PyNone, log_file |-> None,
                    after_module_setup |-> FALSE]

\* setup_adk_logging, lines 73-227
setup_adk_logging(log_file, log_level, file_only, cloud_mode) ==
    LET actual_log_level == _get_log_level(log_level, environ) IN
    /\ root_level' = actual_log_level
    /\ root_handlers' = setup_root_handlers(root_handlers, file_only, cloud_mode,
                                            log_file, actual_log_level)
    /\ child_level' = actual_log_level
    /\ child_handlers' = child_logger_handlers(child_handlers, file_only,
                                               actual_log_level)
    /\ child_propagate' = TRUE
    /\ last_call' = Call("setup_adk_logging", file_only, cloud_mode, log_level,
                         log_file)
    /\ UNCHANGED environ

\* ensure_debug_logging, lines 230-256
ensure_debug_logging(log_level, cloud_mode) ==
    LET actual_log_level == _get_log_level(log_level, environ) IN
    /\ root_level' = actual_log_level
    /\ root_handlers' = logging_log(setup_root_handlers(root_handlers, None,
                                        cloud_mode, None, actual_log_level))
    /\ child_level' = actual_log_level
    /\ child_handlers' = child_logger_handlers(child_handlers, None,
                                               actual_log_level)
    /\ child_propagate' = TRUE
    /\ last_call' = Call("ensure_debug_logging", None, cloud_mode, log_level, None)
    /\ UNCHANGED environ

\* Another library installs a handler on the root logger.
addHandler(h) ==
    /\ Len(root_handlers) < MaxHandlers
    /\ root_handlers' = Append(root_handlers, h)
    /\ last_call' = Call("addHandler", None, None, PyNone, None)
    /\ UNCHANGED <<environ, root_level, child_level, child_handlers, child_propagate>>

\* Another library installs a handler on a logger of loggers_to_debug.
addChildHandler(h) ==
    /\ Len(child_handlers) < MaxChildHandlers
    /\ child_handlers' = Append(child_handlers, h)
    /\ last_call' = Call("addHandler", None, None, PyNone, None)
    /\ UNCHANGED <<environ, root_level, root_handlers, child_level, child_propagate>>

\* The environment the process is started in (.env file, shell, platform).
setenv(k, v) ==
    /\ environ' = DictSet(environ, k, v)
    /\ last_call' = Call("setenv", None, None, PyNone, None)
    /\ UNCHANGED <<root_level, root_handlers, child_level, child_handlers,
                   child_propagate>>

OptionalBool == {None, "True", "False"}

FreshHandlers ==
    {Handler("StreamHandler", "", 0), Handler("Handler", "", 0),
     Handler("FileHandler", DefaultLogFile, 0),
     Handler("FileHandler", "logs/other.log", 0)}

\* ---- the handlers and the mode (SpecLog)
LogFiles == {None, "", "logs/agent.log"}
LogLevels == {PyNone}

SetupCall ==
    /\ \E lf \in LogFiles, ll \in LogLevels, fo \in OptionalBool, cm \in OptionalBool :
          setup_adk_logging(lf, ll, fo, cm)
    /\ UNCHANGED <<sessionVars, shipVars, apiVars>>

EnsureCall ==
    /\ \E ll \in LogLevels, cm \in OptionalBool : ensure_debug_logging(ll, cm)
    /\ UNCHANGED <<sessionVars, shipVars, apiVars>>

AddHandler ==
    /\ \E h \in FreshHandlers : addHandler(h)
    /\ UNCHANGED <<sessionVars, shipVars, apiVars>>

AddChildHandler ==
    /\ \E h \in {Handler("StreamHandler", "", 0), Handler("Handler", "", 0)} :
          addChildHandler(h)
    /\ UNCHANGED <<sessionVars, shipVars, apiVars>>

SetCloudMode ==
    /\ \E v \in {<<"t", "r", "u", "e">>, <<"N", "o">>} : setenv("ADK_CLOUD_MODE", v)
    /\ UNCHANGED <<sessionVars, shipVars, apiVars>>

SetCloudService ==
    /\ setenv("K_SERVICE", <<"s", "v", "c">>)
    /\ UNCHANGED <<sessionVars, shipVars, apiVars>>

LogNext ==
    \/ SetupCall \/ EnsureCall \/ AddHandler \/ AddChildHandler
    \/ SetCloudMode \/ SetCloudService

\* ---- the log level (SpecLevel)
LevelNames ==
    {<<"D", "E", "B", "U", "G">>, <<"d", "e", "b", "u", "g">>,
     <<"I", "N", "F", "O">>, <<"I", "n", "f", "o">>,
     <<"W", "A", "R", "N", "I", "N", "G">>, <<"w", "a", "r", "n", "i", "n", "g">>,
     <<"E", "R", "R", "O", "R">>, <<"e", "r", "r", "o", "R">>,
     <<"C", "R", "I", "T", "I", "C", "A", "L">>,
     <<"c", "r", "i", "t", "i", "c", "a", "l">>}

OtherStrings ==
    {<<>>, <<"W", "A", "R", "N">>, <<"v", "e", "r", "b", "o", "s", "e">>,
     <<" ", "i", "n", "f", "o">>, <<"2", "0">>}

LevelArgs ==
    {PyNone} \cup {PyStr(s) : s \in LevelNames \cup OtherStrings}
             \cup {PyInt(n) : n \in {0, INFO, 25}}

SetupLevelCall ==
    /\ \E ll \in LevelArgs, fo \in {None, "True"} :
          setup_adk_logging(None, ll, fo, None)
    /\ UNCHANGED <<sessionVars, shipVars, apiVars>>

EnsureLevelCall ==
    /\ \E ll \in LevelArgs : ensure_debug_logging(ll, None)
    /\ UNCHANGED <<sessionVars, shipVars, apiVars>>

SetLevelEnv ==
    /\ \E v \in LevelNames \cup OtherStrings : setenv("ADK_LOG_LEVEL", v)
    /\ UNCHANGED <<sessionVars, shipVars, apiVars>>

LevelNext == SetupLevelCall \/ EnsureLevelCall \/ SetLevelEnv

(***************************************************************************)
(* agents-api-server.py                                                    *)
(*                                                                         *)
(* The endpoints are coroutines of one event loop and get_agent and        *)
(* get_runner contain no await: each call runs to its end undisturbed.     *)
(* What load_agent finds on disk and what runner.run answers belong to     *)
(* the environment (loadable, run_ok).                                     *)
(***************************************************************************)
MaxLoads == 2

\* get_agent, lines 102-112: the keys of agent_paths
agent_paths ==
    {"helpful_assistant", "sample-agent", "currency_agent", "image_agent",
     "shipping_agent", "research_agent", "customer_support_agent",
     "product_catalog_agent", "weather_assistant"}

RequestedNames == {"helpful_assistant", "sample-agent", "unknown_agent"}
Messages == {"hello"}
ConversationIds == {None, "c1"}

\* ChatRequest, lines 46-49
ChatRequest(message, agent_name, conversation_id) ==
    [message |-> message, agent_name |-> agent_name,
     conversation_id |-> conversation_id]

ChatRequests ==
    {ChatRequest(m, a, c) :
        m \in Messages, a \in {None, ""} \cup RequestedNames, c \in ConversationIds}

\* The outcome of a call: the value returned or the exception raised, and the
\* module state it leaves.
Outcome(ok, value, ac, rc, lc, rm, ret) ==
    [ok |-> ok, value |-> value, agents_cache |-> ac, runners_cache |-> rc,
     load_calls |-> lc, runners_made |-> rm, returned |-> ret]

NoValue == [name |-> None, load |-> 0]

\* Mutation: the cache is not consulted, the agent is loaded on every call.
get_agent_always_loads(agent_name, ac, rc, lc, rm, ret) ==
    IF agent_name \notin agent_paths
    THEN Outcome(FALSE, NoValue, ac, rc, lc, rm, ret)
    ELSE LET lc2 == [lc EXCEPT ![agent_name] = @ + 1] IN
         IF agent_name \in loadable
         THEN LET agent == [name |-> agent_name, load |-> lc2[agent_name]] IN
              Outcome(TRUE, agent, DictSet(ac, agent_name, agent), rc, lc2, rm,
                      [ret EXCEPT ![agent_name] = @ \cup {agent}])
         ELSE Outcome(FALSE, NoValue, ac, rc, lc2, rm, ret)

\* get_agent, lines 98-137.  A loaded agent is told apart by the load_agent
\* call that made it.
get_agent(agent_name, ac, rc, lc, rm, ret) ==
    IF agent_name \in DOMAIN ac
    THEN Outcome(TRUE, ac[agent_name], ac, rc, lc, rm,
                 [ret EXCEPT ![agent_name] = @ \cup {ac[agent_name]}])
    ELSE IF agent_name \notin agent_paths
    THEN Outcome(FALSE, NoValue, ac, rc, lc, rm, ret)
    ELSE LET lc2 == [lc EXCEPT ![agent_name] = @ + 1] IN
         IF agent_name \in loadable
         THEN LET agent == [name |-> agent_name, load |-> lc2[agent_name]] IN
              Outcome(TRUE, agent, DictSet(ac, agent_name, agent), rc, lc2, rm,
                      [ret EXCEPT ![agent_name] = @ \cup {agent}])
         ELSE Outcome(FALSE, NoValue, ac, rc, lc2, rm, ret)

\* get_runner, lines 139-146.  The value is the runner: the agent it wraps
\* and its number among the runners made for the name.
get_runner(agent_name, ac, rc, lc, rm, ret) ==
    IF agent_name \in DOMAIN rc
    THEN Outcome(TRUE, rc[agent_name], ac, rc, lc, rm, ret)
    ELSE LET got == get_agent(agent_name, ac, rc, lc, rm, ret) IN
         IF ~got.ok THEN got
         ELSE LET rm2 == [rm EXCEPT ![agent_name] = @ + 1]
                  runner == [name |-> agent_name, load |-> got.value.load,
                             serial |-> rm2[agent_name]]
              IN Outcome(TRUE, runner, got.agents_cache,
                         DictSet(rc, agent_name, runner), got.load_calls, rm2,
                         got.returned)

\* Mutation: only a missing agent_name falls back to the default agent.
chat_agent_name_none_only(req) ==
    IF req.agent_name = None THEN "helpful_assistant" ELSE req.agent_name

\* chat, line 183: request.agent_name or "helpful_assistant"
chat_agent_name(req) ==
    IF req.agent_name \in {None, ""} THEN "helpful_assistant" ELSE req.agent_name

HttpOk(text, agent_name, conversation_id) ==
    [status |-> 200, response |-> text, agent_name |-> agent_name,
     conversation_id |-> conversation_id]

HttpError(status) ==
    [status |-> status, response |-> <<>>, agent_name |-> None,
     conversation_id |-> None]

\* chat, lines 181-205: the new module state and the response
chat_effect(req) ==
    LET agent_name == chat_agent_name(req)
        got == get_runner(agent_name, agents_cache, runners_cache, load_calls,
                          runners_made, returned)
    IN /\ agents_cache' = got.agents_cache
       /\ runners_cache' = got.runners_cache
       /\ load_calls' = got.load_calls
       /\ runners_made' = got.runners_made
       /\ returned' = got.returned
       /\ response' = IF got.ok /\ run_ok
                      THEN HttpOk(<<got.value, req.message>>, agent_name,
                                  req.conversation_id)
                      ELSE HttpError(500)
       /\ UNCHANGED <<server, loadable, run_ok, bridgeVars>>

RECURSIVE SumOver(_, _)
SumOver(f, S) ==
    IF S = {} THEN 0
    ELSE LET x == CHOOSE y \in S : TRUE IN f[x] + SumOver(f, S \ {x})

\* The load_agent calls the model follows are bounded.
CanServe(agent_name) ==
    (agent_name \in agent_paths /\ agent_name \notin DOMAIN agents_cache) =>
        SumOver(load_calls, agent_paths) < MaxLoads

\* POST /chat, lines 174-205.  request.agent_name records the local variable
\* agent_name of chat, the name handed to get_runner.
chat(req) ==
    /\ CanServe(chat_agent_name(req))
    /\ request' = [endpoint |-> "/chat", path |-> None, body |-> req,
                   agent_name |-> chat_agent_name(req)]
    /\ chat_effect(req)

\* Mutation: the path name is used only when the body names no agent.
chat_with_agent_request_keeps_body(agent_name, req) ==
    IF req.agent_name \in {None, ""}
    THEN [req EXCEPT !.agent_name = agent_name]
    ELSE req

\* chat_with_agent, line 210: request.agent_name = agent_name
chat_with_agent_request(agent_name, req) == [req EXCEPT !.agent_name = agent_name]

\* POST /chat/{agent_name}, lines 207-211
chat_with_agent(agent_name, req) ==
    /\ CanServe(chat_agent_name(chat_with_agent_request(agent_name, req)))
    /\ request' = [endpoint |-> "/chat/{agent_name}", path |-> agent_name,
                   body |-> req,
                   agent_name |-> chat_agent_name(chat_with_agent_request(agent_name, req))]
    /\ chat_effect(chat_with_agent_request(agent_name, req))

\* GET /agents/{agent_name}/info, lines 213-225
agent_info(agent_name) ==
    LET got == get_agent(agent_name, agents_cache, runners_cache, load_calls,
                         runners_made, returned)
    IN /\ CanServe(agent_name)
       /\ request' = [endpoint |-> "/agents/{agent_name}/info", path |-> agent_name,
                      body |-> ChatRequest("", None, None),
                      agent_name |-> agent_name]
       /\ agents_cache' = got.agents_cache
       /\ load_calls' = got.load_calls
       /\ returned' = got.returned
       /\ response' = IF got.ok THEN HttpOk(<<>>, agent_name, None)
                      ELSE HttpError(404)
       /\ UNCHANGED <<server, runners_cache, runners_made, loadable, run_ok,
                      bridgeVars>>

ApiInit ==
    /\ agents_cache = EmptyDict
    /\ runners_cache = EmptyDict
    /\ loadable = {"helpful_assistant", "sample-agent"}
    /\ run_ok = TRUE
    /\ load_calls = [n \in agent_paths |-> 0]
    /\ runners_made = [n \in agent_paths |-> 0]
    /\ returned = [n \in agent_paths |-> {}]
    /\ request = [endpoint |-> None, path |-> None,
                  body |-> ChatRequest("", None, None), agent_name |-> None]
    /\ response = HttpError(0)
    /\ vertex_ai_initialized = FALSE
    /\ deployed = <<>>
    /\ list_calls = 0
    /\ served = EmptyDict

PostChat ==
    /\ server = "agents-api-server"
    /\ \E req \in ChatRequests : chat(req)
    /\ UNCHANGED <<sessionVars, shipVars, logVars>>

PostChatWithAgent ==
    /\ server = "agents-api-server"
    /\ \E a \in RequestedNames, req \in ChatRequests : chat_with_agent(a, req)
    /\ UNCHANGED <<sessionVars, shipVars, logVars>>

GetAgentInfo ==
    /\ server = "agents-api-server"
    /\ \E a \in RequestedNames : agent_info(a)
    /\ UNCHANGED <<sessionVars, shipVars, logVars>>

\* An agent directory appears or disappears, or its module starts or stops
\* importing.
ChangeAgentFiles ==
    /\ server = "agents-api-server"
    /\ \E a \in RequestedNames \cap agent_paths :
          loadable' = IF a \in loadable THEN loadable \ {a} ELSE loadable \cup {a}
    /\ UNCHANGED <<server, agents_cache, runners_cache, run_ok, load_calls,
                   runners_made, returned, request, response, bridgeVars>>
    /\ UNCHANGED <<sessionVars, shipVars, logVars>>

\* The model service goes down or comes back (either server).
ChangeRunOutcome ==
    /\ run_ok' = ~run_ok
    /\ UNCHANGED <<server, agents_cache, runners_cache, loadable, load_calls,
                   runners_made, returned, request, response, bridgeVars>>
    /\ UNCHANGED <<sessionVars, shipVars, logVars>>

(***************************************************************************)
(* vertex-ai-agent-bridge-api.py                                           *)
(*                                                                         *)
(* Agent names and ids are sequences of characters, so that str.lower()    *)
(* and the substring test are computed.  A deployed agent is its           *)
(* resource_name, already split at '/'.  get_deployed_agent contains no    *)
(* await and runs to its end undisturbed.                                  *)
(***************************************************************************)
MaxLists == 2

\* str.lower()
str_lower(s) ==
    [i \in 1..Len(s) |->
        IF \E j \in 1..Len(UpperCase) : UpperCase[j] = s[i]
        THEN LowerCase[CHOOSE j \in 1..Len(UpperCase) : UpperCase[j] = s[i]]
        ELSE s[i]]

\* sub in s, for two str
str_in(sub, s) ==
    \E i \in 0..(Len(s) - Len(sub)) : SubSeq(s, i + 1, i + Len(sub)) = sub

DeployedAgent(id) ==
    [resource_name |-> <<"projects", "p", "locations", "us-central1",
                         "reasoningEngines", id>>]

\* a.resource_name.split('/')[-1], lines 107 and 173
agent_id_of(a) == a.resource_name[Len(a.resource_name)]

AgentIds == {<<"A", "b">>, <<"a", "b", "c">>, <<"x", "Y">>}

DeployedLists ==
    {<<>>,
     <<DeployedAgent(<<"a", "b", "c">>), DeployedAgent(<<"A", "b">>)>>,
     <<DeployedAgent(<<"x", "Y">>), DeployedAgent(<<"A", "b">>),
       DeployedAgent(<<"a", "b", "c">>)>>}

BridgeNames == {<<"a", "B">>, <<"b", "C">>, <<"z">>}

\* ChatRequest, lines 64-68
BridgeChatRequest(message, agent_name, user_id, conversation_id) ==
    [message |-> message, agent_name |-> agent_name, user_id |-> user_id,
     conversation_id |-> conversation_id]

BridgeChatRequests ==
    {BridgeChatRequest(m, a, u, c) :
        m \in Messages,
        a \in {PyNone, PyStr(<<>>)} \cup {PyStr(n) : n \in BridgeNames},
        u \in {None, "u1"},
        c \in {"c1"}}

BridgeOutcome(status, value, ac, lc) ==
    [status |-> status, value |-> value, agents_cache |-> ac, list_calls |-> lc]

name_matches_case_sensitive(agent_name, a) ==
    \/ agent_name = agent_id_of(a)
    \/ str_in(agent_name, agent_id_of(a))

\* get_deployed_agent, lines 106-110: the test of the search loop
name_matches(agent_name, a) ==
    \/ str_lower(agent_name) = str_lower(agent_id_of(a))
    \/ str_in(str_lower(agent_name), str_lower(agent_id_of(a)))

\* get_deployed_agent, lines 79-125, after init_vertex_ai()
get_deployed_agent(agent_name, ac, lc) ==
    IF agent_name \in DOMAIN ac
    THEN BridgeOutcome(200, ac[agent_name], ac, lc)
    ELSE LET agents_list == deployed
             found == {i \in 1..Len(agents_list) :
                          name_matches(agent_name, agents_list[i])}
             first == CHOOSE i \in found : \A j \in found : i <= j
         IN IF agents_list = <<>>
            THEN BridgeOutcome(404, DeployedAgent(<<>>), ac, lc + 1)
            ELSE IF found = {}
            THEN IF agent_name # <<>>
                 THEN BridgeOutcome(404, DeployedAgent(<<>>), ac, lc + 1)
                 ELSE BridgeOutcome(200, agents_list[1],
                                    DictSet(ac, agent_id_of(agents_list[1]),
                                            agents_list[1]), lc + 1)
            ELSE LET agent == agents_list[first]
                     key == IF agent_name # <<>> THEN agent_name
                            ELSE agent_id_of(agent)
                 IN BridgeOutcome(200, agent, DictSet(ac, key, agent), lc + 1)

\* get_deployed_agent, lines 93 and 125: the agent a call returns is added to
\* the history of the name it was called with.
served_after(agent_name, got) ==
    IF got.status # 200 THEN served
    ELSE DictSet(served, agent_name,
                 DictGet(served, agent_name, {}) \cup {got.value})

BridgeOk(text, agent_name, user_id, conversation_id) ==
    [status |-> 200, response |-> text, agent_name |-> agent_name,
     user_id |-> user_id, conversation_id |-> conversation_id]

BridgeError(status) ==
    [status |-> status, response |-> <<>>, agent_name |-> <<>>,
     user_id |-> None, conversation_id |-> None]

\* chat, line 172: request.agent_name or ""
bridge_chat_agent_name(req) ==
    IF req.agent_name.t = "None" THEN <<>> ELSE req.agent_name.v

\* chat, lines 170-209: the new module state and the response
bridge_chat_effect(req) ==
    LET got == get_deployed_agent(bridge_chat_agent_name(req), agents_cache,
                                  list_calls)
    IN /\ vertex_ai_initialized' = TRUE
       /\ agents_cache' = got.agents_cache
       /\ list_calls' = got.list_calls
       /\ served' = served_after(bridge_chat_agent_name(req), got)
       /\ response' = IF got.status # 200 THEN BridgeError(got.status)
                      ELSE IF run_ok
                      THEN BridgeOk(<<got.value, req.message, req.user_id>>,
                                    agent_id_of(got.value), req.user_id,
                                    req.conversation_id)
                      ELSE BridgeError(500)
       /\ UNCHANGED <<server, runners_cache, loadable, run_ok, load_calls,
                      runners_made, returned, deployed>>

\* The agent_engines.list() calls the model follows are bounded.
CanList(agent_name) == agent_name \notin DOMAIN agents_cache => list_calls < MaxLists

\* POST /chat, lines 160-209
bridge_chat(req) ==
    /\ CanList(bridge_chat_agent_name(req))
    /\ request' = [endpoint |-> "/chat", path |-> PyNone, body |-> req,
                   agent_name |-> bridge_chat_agent_name(req)]
    /\ bridge_chat_effect(req)

\* chat_with_agent, line 214: request.agent_name = agent_name
bridge_chat_with_agent_request(agent_name, req) ==
    [req EXCEPT !.agent_name = PyStr(agent_name)]

\* POST /chat/{agent_name}, lines 211-215
bridge_chat_with_agent(agent_name, req) ==
    /\ CanList(agent_name)
    /\ request' = [endpoint |-> "/chat/{agent_name}", path |-> PyStr(agent_name),
                   body |-> req,
                   agent_name |-> bridge_chat_agent_name(
                                     bridge_chat_with_agent_request(agent_name, req))]
    /\ bridge_chat_effect(bridge_chat_with_agent_request(agent_name, req))

\* GET /agents/{agent_name}/info, lines 217-234
bridge_agent_info(agent_name) ==
    LET got == get_deployed_agent(agent_name, agents_cache, list_calls) IN
    /\ CanList(agent_name)
    /\ request' = [endpoint |-> "/agents/{agent_name}/info",
                   path |-> PyStr(agent_name),
                   body |-> BridgeChatRequest("", PyNone, None, None),
                   agent_name |-> agent_name]
    /\ vertex_ai_initialized' = TRUE
    /\ agents_cache' = got.agents_cache
    /\ list_calls' = got.list_calls
    /\ served' = served_after(agent_name, got)
    /\ response' = IF got.status # 200 THEN BridgeError(got.status)
                   ELSE BridgeOk(<<>>, agent_id_of(got.value), None, None)
    /\ UNCHANGED <<server, runners_cache, loadable, run_ok, load_calls,
                   runners_made, returned, deployed>>

\* GET /agents, lines 137-158: lists without touching the cache; the only
\* module state it can change is the flag of init_vertex_ai.
bridge_list_agents ==
    /\ ~vertex_ai_initialized
    /\ vertex_ai_initialized' = TRUE
    /\ UNCHANGED <<server, agents_cache, runners_cache, loadable, run_ok,
                   load_calls, runners_made, returned, request, response,
                   deployed, list_calls, served>>

BridgePostChat ==
    /\ server = "vertex-ai-agent-bridge-api"
    /\ \E req \in BridgeChatRequests : bridge_chat(req)
    /\ UNCHANGED <<sessionVars, shipVars, logVars>>

BridgePostChatWithAgent ==
    /\ server = "vertex-ai-agent-bridge-api"
    /\ \E a \in BridgeNames, req \in BridgeChatRequests : bridge_chat_with_agent(a, req)
    /\ UNCHANGED <<sessionVars, shipVars, logVars>>

BridgeGetAgentInfo ==
    /\ server = "vertex-ai-agent-bridge-api"
    /\ \E a \in BridgeNames : bridge_agent_info(a)
    /\ UNCHANGED <<sessionVars, shipVars, logVars>>

BridgeListAgents ==
    /\ server = "vertex-ai-agent-bridge-api"
    /\ bridge_list_agents
    /\ UNCHANGED <<sessionVars, shipVars, logVars>>

\* Agents are deployed to or deleted from Agent Engine.
ChangeDeployedAgents ==
    /\ server = "vertex-ai-agent-bridge-api"
    /\ \E l \in DeployedLists : l # deployed /\ deployed' = l
    /\ UNCHANGED <<server, agents_cache, runners_cache, loadable, run_ok,
                   load_calls, runners_made, returned, request, response,
                   vertex_ai_initialized, list_calls, served>>
    /\ UNCHANGED <<sessionVars, shipVars, logVars>>

ApiNext ==
    \/ PostChat \/ PostChatWithAgent \/ GetAgentInfo
    \/ ChangeAgentFiles \/ ChangeRunOutcome
    \/ BridgePostChat \/ BridgePostChatWithAgent \/ BridgeGetAgentInfo
    \/ BridgeListAgents \/ ChangeDeployedAgents

(***************************************************************************)
(* Specifications                                                          *)
(***************************************************************************)
Init ==
    /\ SessionInit /\ ShipInit /\ LogInit /\ ApiInit
    /\ server = "agents-api-server"

\* The bridge at start: the module state of lines 51 and 77, no request served
\* yet, nothing deployed.
BridgeInit ==
    /\ agents_cache = EmptyDict
    /\ runners_cache = EmptyDict
    /\ loadable = {}
    /\ run_ok = TRUE
    /\ load_calls = [n \in agent_paths |-> 0]
    /\ runners_made = [n \in agent_paths |-> 0]
    /\ returned = [n \in agent_paths |-> {}]
    /\ request = [endpoint |-> None, path |-> PyNone,
                  body |-> BridgeChatRequest("", PyNone, None, None),
                  agent_name |-> <<>>]
    /\ response = BridgeError(0)
    /\ vertex_ai_initialized = FALSE
    /\ deployed = <<>>
    /\ list_calls = 0
    /\ served = EmptyDict

\* Either server program is the one started.
InitServers ==
    \/ Init
    \/ /\ SessionInit /\ ShipInit /\ LogInit /\ BridgeInit
       /\ server = "vertex-ai-agent-bridge-api"

SpecSession == Init /\ [][SessionNext]_vars

SpecShip == Init /\ [][ShipNext]_vars

SpecLog == Init /\ [][LogNext]_vars

SpecLevel == Init /\ [][LevelNext]_vars

SpecApi == InitServers /\ [][ApiNext]_vars

(***************************************************************************)
(* C1: within one session, after any sequence of save_userinfo and         *)
(* retrieve_userinfo calls that contains a save, a retrieve_userinfo call  *)
(* returns status "success" with the user_name and country passed to the   *)
(* most recent save_userinfo call.                                         *)
(***************************************************************************)
SaveIndexes == {i \in 1..Len(calls) : calls[i].tool = "save_userinfo"}

MostRecentSave == calls[CHOOSE i \in SaveIndexes : \A j \in SaveIndexes : j <= i]

C1_RetrieveReturnsLastSave ==
    (/\ calls # <<>>
     /\ calls[Len(calls)].tool = "retrieve_userinfo"
     /\ SaveIndexes # {}) =>
        /\ tool_result.tool = "retrieve_userinfo"
        /\ tool_result.status = "success"
        /\ tool_result.user_name = MostRecentSave.user_name
        /\ tool_result.country = MostRecentSave.country

\* A retrieve after two saves with different arguments.
C1_Witness ==
    /\ Len(calls) = 3
    /\ calls[1].tool = "save_userinfo" /\ calls[1].user_name = "Sam"
    /\ calls[2].tool = "save_userinfo" /\ calls[2].user_name = "Ana"
    /\ calls[2].country = "Peru"
    /\ calls[3].tool = "retrieve_userinfo"
    /\ tool_result.user_name = "Ana"
    /\ tool_result.country = "Peru"

(***************************************************************************)
(* C2: an order of at most 5 containers ends approved without ever         *)
(* pausing; an order of more than 5 containers pauses as pending, is       *)
(* resumed only once the decision has been given, and ends approved when   *)
(* the decision is approve and rejected when it is reject.                 *)
(***************************************************************************)
C2_ApprovalWorkflow ==
    /\ (workflow.pc # "idle" /\ workflow.num_containers <= 5) =>
          /\ workflow.pc = "done"
          /\ workflow.status = "approved"
          /\ ~workflow.paused
    /\ (workflow.pc # "idle" /\ workflow.num_containers > 5) =>
          /\ workflow.paused
          /\ workflow.pc \in {"paused", "decided", "done"}
          /\ workflow.pc = "paused" =>
                workflow.status = "pending" /\ workflow.tool_confirmation = None
          /\ workflow.pc = "decided" => workflow.status = "pending"
          /\ workflow.pc \in {"decided", "done"} =>
                workflow.tool_confirmation = workflow.auto_approve
          /\ workflow.pc = "done" =>
                workflow.status =
                    IF workflow.auto_approve = "True" THEN "approved" ELSE "rejected"

C2_Witness ==
    /\ workflow.pc = "done"
    /\ workflow.num_containers = 6
    /\ workflow.paused
    /\ workflow.status = "rejected"

(***************************************************************************)
(* The two logging modes, as seen on the root logger.                      *)
(***************************************************************************)
HasFileHandler(path) ==
    \E i \in 1..Len(root_handlers) :
        IsFileHandler(root_handlers[i]) /\ root_handlers[i].path = path

HasConsoleHandler ==
    \E i \in 1..Len(root_handlers) : root_handlers[i].kind = "StreamHandler"

FileLogging ==
    /\ \E i \in 1..Len(root_handlers) : IsFileHandler(root_handlers[i])
    /\ ~HasConsoleHandler

ConsoleLogging ==
    /\ HasConsoleHandler
    /\ \A i \in 1..Len(root_handlers) : ~IsFileHandler(root_handlers[i])

(***************************************************************************)
(* C3: ensure_debug_logging maintains the configuration made earlier:      *)
(* after setup_adk_logging(agent_name=..., file_only=True) followed by     *)
(* ensure_debug_logging(agent_name=...), the root logger still has the     *)
(* file handler for the log file and has no stdout/stderr stream handler.  *)
(***************************************************************************)
C3_EnsureKeepsFileLogging ==
    (/\ last_call.fn = "ensure_debug_logging"
     /\ last_call.log_level = PyNone
     /\ last_call.cloud_mode = None
     /\ last_call.after_module_setup) =>
        /\ HasFileHandler(DefaultLogFile)
        /\ ~HasConsoleHandler

(***************************************************************************)
(* C4: setup_adk_logging called with file_only=None (and no cloud_mode)    *)
(* picks the mode from the environment: file logging when no cloud         *)
(* environment is detected, stdout/stderr logging when                     *)
(* __is_cloud_environment() is true.                                        *)
(***************************************************************************)
C4_ModeAutoDetected ==
    (/\ last_call.fn = "setup_adk_logging"
     /\ last_call.file_only = None
     /\ last_call.cloud_mode = None) =>
        IF _is_cloud_environment(environ) THEN ConsoleLogging ELSE FileLogging

(***************************************************************************)
(* C5: an explicit cloud_mode overrides file_only: cloud_mode=True yields  *)
(* stdout/stderr logging and cloud_mode=False yields file logging,         *)
(* whatever file_only is.                                                  *)
(***************************************************************************)
C5_CloudModeOverridesFileOnly ==
    (/\ last_call.fn = "setup_adk_logging"
     /\ last_call.cloud_mode # None) =>
        IF last_call.cloud_mode = "True" THEN ConsoleLogging ELSE FileLogging

(***************************************************************************)
(* C6: after setup_adk_logging returns with file_only=True every handler   *)
(* left on the root logger is a file handler, whatever handlers were       *)
(* installed before the call (stated for a call that names a log file or   *)
(* leaves the default one).                                                *)
(***************************************************************************)
C6_FileOnlyLeavesOnlyFileHandlers ==
    (/\ last_call.fn = "setup_adk_logging"
     /\ last_call.file_only = "True"
     /\ last_call.log_file # "") =>
        \A i \in 1..Len(root_handlers) : IsFileHandler(root_handlers[i])

(***************************************************************************)
(* C7: the level setup_adk_logging uses is the log_level argument when     *)
(* given, otherwise the ADK_LOG_LEVEL environment variable, otherwise      *)
(* DEBUG; a level name is matched whatever its case, and a string that is  *)
(* none of DEBUG, INFO, WARNING, ERROR, CRITICAL resolves to DEBUG.        *)
(***************************************************************************)
SameIgnoringCase(s, t) ==
    /\ Len(s) = Len(t)
    /\ \A i \in 1..Len(s) :
          \/ s[i] = t[i]
          \/ \E j \in 1..Len(LowerCase) : {s[i], t[i]} = {LowerCase[j], UpperCase[j]}

LevelOfName(s) ==
    IF SameIgnoringCase(s, <<"d", "e", "b", "u", "g">>) THEN 10
    ELSE IF SameIgnoringCase(s, <<"i", "n", "f", "o">>) THEN 20
    ELSE IF SameIgnoringCase(s, <<"w", "a", "r", "n", "i", "n", "g">>) THEN 30
    ELSE IF SameIgnoringCase(s, <<"e", "r", "r", "o", "r">>) THEN 40
    ELSE IF SameIgnoringCase(s, <<"c", "r", "i", "t", "i", "c", "a", "l">>) THEN 50
    ELSE 10

ExpectedLevel ==
    IF last_call.log_level.t = "int" THEN last_call.log_level.n
    ELSE IF last_call.log_level.t = "str" THEN LevelOfName(last_call.log_level.v)
    ELSE IF "ADK_LOG_LEVEL" \in DOMAIN environ THEN LevelOfName(environ["ADK_LOG_LEVEL"])
    ELSE 10

C7_LogLevelResolution ==
    last_call.fn = "setup_adk_logging" =>
        /\ root_level = ExpectedLevel
        /\ child_level = ExpectedLevel
        /\ \A i \in 1..Len(root_handlers) :
              IsFileHandler(root_handlers[i]) => root_handlers[i].level = ExpectedLevel

\* No argument, ADK_LOG_LEVEL=Info in mixed case: the level is INFO.
C7_Witness ==
    /\ last_call.fn = "setup_adk_logging"
    /\ last_call.log_level = PyNone
    /\ last_call.file_only = "True"
    /\ "ADK_LOG_LEVEL" \in DOMAIN environ
    /\ environ["ADK_LOG_LEVEL"] = <<"I", "n", "f", "o">>
    /\ root_level = 20
    /\ HasFileHandler(DefaultLogFile)

(***************************************************************************)
(* C8: get_agent loads each agent at most once: once get_agent(name) has   *)
(* succeeded, every later get_agent(name) returns the same cached object   *)
(* and load_agent is not called for the name again; get_runner makes at    *)
(* most one runner per agent name.                                         *)
(***************************************************************************)
C8_AgentsLoadedOnce ==
    server = "agents-api-server" => \A n \in agent_paths :
        /\ Cardinality(returned[n]) <= 1
        /\ n \in DOMAIN agents_cache =>
              /\ returned[n] = {agents_cache[n]}
              /\ agents_cache[n].load = load_calls[n]
        /\ n \notin DOMAIN agents_cache => returned[n] = {}
        /\ runners_made[n] <= 1
        /\ n \in DOMAIN runners_cache =>
              /\ runners_made[n] = 1
              /\ n \in DOMAIN agents_cache
              /\ runners_cache[n].load = agents_cache[n].load

\* A get_agent call for an agent that an earlier request loaded, after a
\* first load_agent call that failed.
C8_Witness ==
    /\ server = "agents-api-server"
    /\ request.endpoint = "/agents/{agent_name}/info"
    /\ request.path = "sample-agent"
    /\ response.status = 200
    /\ "sample-agent" \in DOMAIN runners_cache
    /\ "sample-agent" \notin loadable
    /\ load_calls["sample-agent"] = 2

(***************************************************************************)
(* C9: POST /chat with no agent_name (absent, null or empty) runs the      *)
(* helpful_assistant agent, and the response's agent_name is then          *)
(* "helpful_assistant".                                                    *)
(***************************************************************************)
C9_DefaultAgent ==
    (/\ server = "agents-api-server"
     /\ request.endpoint = "/chat"
     /\ request.body.agent_name \in {None, ""}) =>
        /\ request.agent_name = "helpful_assistant"
        /\ response.status \in {200, 500}
        /\ response.status = 200 =>
              /\ response.agent_name = "helpful_assistant"
              /\ response.response[1] = runners_cache["helpful_assistant"]
              /\ response.response[1].name = "helpful_assistant"

C9_Witness ==
    /\ server = "agents-api-server"
    /\ request.endpoint = "/chat"
    /\ request.body.agent_name = ""
    /\ response.status = 200
    /\ response.agent_name = "helpful_assistant"
    /\ "sample-agent" \in DOMAIN runners_cache

(***************************************************************************)
(* C10: POST /chat/{agent_name} chats with the agent named in the path:    *)
(* whatever agent_name the body carries, the response and the effect on    *)
(* the caches are those of POST /chat with the same message, user and      *)
(* conversation and the path name as agent_name (in both servers).         *)
(***************************************************************************)
ServesChatWithAgent ==
    /\ server = "agents-api-server"
    /\ request'.endpoint = "/chat/{agent_name}"
    /\ chat_with_agent(request'.path, request'.body)

BridgeServesChatWithAgent ==
    /\ server = "vertex-ai-agent-bridge-api"
    /\ request'.endpoint = "/chat/{agent_name}"
    /\ bridge_chat_with_agent(request'.path.v, request'.body)

C10_PathNameReplacesBodyName ==
    [][/\ ServesChatWithAgent =>
            chat_effect(ChatRequest(request'.body.message, request'.path,
                                    request'.body.conversation_id))
       /\ BridgeServesChatWithAgent =>
            bridge_chat_effect(BridgeChatRequest(request'.body.message,
                                                 request'.path,
                                                 request'.body.user_id,
                                                 request'.body.conversation_id))]_vars

\* The path names one agent and the body another one.
C10_Witness ==
    /\ server = "agents-api-server"
    /\ request.endpoint = "/chat/{agent_name}"
    /\ request.path = "helpful_assistant"
    /\ request.body.agent_name = "sample-agent"
    /\ response.status = 200
    /\ response.agent_name = "helpful_assistant"
    /\ "sample-agent" \notin DOMAIN runners_cache

(***************************************************************************)
(* C11: in the Vertex AI bridge get_deployed_agent checks the cache first: *)
(* once it has returned an agent for a requested name, no later call with  *)
(* that requested name returns another agent, and no later call with that  *)
(* requested name lists the deployed agents.                               *)
(***************************************************************************)
C11_CacheFirst ==
    [][server = "vertex-ai-agent-bridge-api" =>
          \A n \in DOMAIN served :
              /\ served'[n] = served[n]
              /\ list_calls' # list_calls => request'.agent_name # n]_vars

(***************************************************************************)
(* C12: in the Vertex AI bridge a lookup by non-empty name, that is a call *)
(* of get_deployed_agent that reaches the listing (lines 95-118; a name    *)
(* found in the cache is answered before, which is C11's subject), returns *)
(* the first agent in listing order whose id equals or contains the name   *)
(* whatever the case of the letters, and fails with HTTP 404 when no       *)
(* deployed agent matches or none is deployed.                             *)
(***************************************************************************)
ContainsIgnoringCase(name, id) ==
    \E i \in 1..Len(id), j \in 1..Len(id) :
        SameIgnoringCase(name, [k \in 1..(j - i + 1) |-> id[i + k - 1]])

LooksUp ==
    /\ server = "vertex-ai-agent-bridge-api"
    /\ list_calls' = list_calls + 1
    /\ request'.agent_name # <<>>

====
